---- MODULE Spec2Model ----
(***************************************************************************)
(* Model of src/export_data.py: the one-shot export pipeline               *)
(*   load_data -> build_enriched_data -> export_tracks_json ->             *)
(*   export_embeddings_binary -> compute_tsne -> build_search_index ->     *)
(*   export_genres                                                         *)
(* Strings that the code takes apart (URIs, names) are sequences of        *)
(* one-character strings.  A nullable column of the artist table holds     *)
(* <<>> for a missing value (None / NaN) and <<v>> for the value v; a      *)
(* missing text is NoneText.  The optional playlist source is absent in    *)
(* the modelled runs, so playlist_count is 0 (export_data.py line 78).     *)
(***************************************************************************)
EXTENDS Integers, Sequences, FiniteSets, TLC

VARIABLES pc, error, wv, track_df, artist_df, enriched_df, tracks,
          embeddings, coords_3d, coords, index, top_genres, files, text, tokens

vars == <<pc, error, wv, track_df, artist_df, enriched_df, tracks,
          embeddings, coords_3d, coords, index, top_genres, files, text, tokens>>

\* a missing value of a nullable column, and a missing text
NaN == <<>>
NoneText == <<"None">>

(* ------------------------------ bounds -------------------------------- *)
\* rows of the track table in the runs of Spec
MaxRows == 3
\* tracks in the runs of SpecGenres
MaxGenreTracks == 3
\* tracks and largest raw coordinate in the runs of SpecTsne
MaxTsneTracks == 3
MaxCoord == 2
\* length of the texts given to tokenize in SpecTok
MaxLen == 4

(* ------------------------- generic helpers ---------------------------- *)
Range(s) == {s[k] : k \in 1..Len(s)}

Min2(a, b) == IF a <= b THEN a ELSE b

\* s[:n]
Take(s, n) == SubSeq(s, 1, Min2(n, Len(s)))

SeqsUpTo(S, n) == UNION {[1..k -> S] : k \in 0..n}

RECURSIVE Concat(_)
Concat(ss) == IF ss = <<>> THEN <<>> ELSE Head(ss) \o Concat(Tail(ss))

\* s[1] + ... + s[n]
RECURSIVE SumTo(_, _)
SumTo(s, n) == IF n = 0 THEN 0 ELSE s[n] + SumTo(s, n - 1)

SumSeq(s) == SumTo(s, Len(s))

(* ------------------------- str.split / extract_id --------------------- *)
\* position of the last sep in s, 0 when there is none
LastIndexOf(s, sep) ==
    IF \E k \in 1..Len(s) : s[k] = sep
    THEN CHOOSE k \in 1..Len(s) : s[k] = sep /\ \A j \in (k+1)..Len(s) : s[j] # sep
    ELSE 0

\* uri.split(":")[-1]
extract_id(uri) == SubSeq(uri, LastIndexOf(uri, ":") + 1, Len(uri))

(* ------------------------------ inputs -------------------------------- *)
Digits == <<"0", "1", "2", "3", "4", "5", "6", "7", "8", "9">>

\* "s:t:a", "b" (no separator) and "x:a" (same canonical id as the first), as
\* characters
U1 == <<"s", ":", "t", ":", "a">>
U2 == <<"b">>
U3 == <<"x", ":", "a">>
TrackUris == {U1, U2, U3}

\* "s:t:<k>", the track URIs of the runs of SpecGenres and SpecTsne
TrackUri(k) == <<"s", ":", "t", ":", Digits[k + 1]>>

AU1 == <<"s", ":", "r", ":", "p">>
AU2 == <<"s", ":", "r", ":", "q">>
AU3 == <<"s", ":", "r", ":", "z">>

\* the vectors of the trained model (dimension 2)
VecOf(uri) == IF uri = U1 THEN <<1, 0>>
              ELSE IF uri = U2 THEN <<0, 1>>
              ELSE IF uri = U3 THEN <<1, 1>>
              ELSE LET k == CHOOSE d \in 0..9 : Digits[d + 1] = uri[Len(uri)]
                   IN <<k, k * k>>

SongA == <<"S", "o", "n", "g", " ", "A">>
YoYo  == <<"Y", "o", " ", "y", "o", "!">>
ArtX  == <<"A", "r", "t", " ", "X">>
Yo    == <<"y", "o">>

TrackRow(u, a, n, an) ==
    [track_uri |-> u, artist_uri |-> a, track_name |-> n, artist_name |-> an]

TrackRows == { TrackRow(U1, AU1, SongA, ArtX),
               TrackRow(U1, AU2, YoYo, Yo),
               TrackRow(U2, AU1, YoYo, ArtX),
               TrackRow(U2, AU3, <<>>, NoneText),
               TrackRow(U3, AU2, SongA, Yo) }

ArtistRow(id, g, p, f) ==
    [artist_id |-> id, genres |-> g, artist_popularity |-> p, artist_followers |-> f]

ArtistRows == { ArtistRow(<<"p">>, << <<"pop", "rock">> >>, <<70>>, <<9>>),
                ArtistRow(<<"p">>, << <<"rock">> >>, <<10>>, NaN),
                ArtistRow(<<"q">>, NaN, NaN, <<3>>) }

ArtistTables == {<<>>} \cup {<<a>> : a \in ArtistRows}
                       \cup {<<a, b>> : a \in ArtistRows, b \in ArtistRows}

Vocabularies == {{}, {U1}, {U1, U2}, {U2, U3}, TrackUris}

\* what load_data can find on disk in the runs of Spec
MainInputs ==
    { [wv |-> [u \in V |-> VecOf(u)], track_df |-> t, artist_df |-> a] :
        V \in Vocabularies, t \in SeqsUpTo(TrackRows, MaxRows), a \in ArtistTables }

RequiredSources == {"track2vec.wordvectors", "track_metadata.parquet", "artist_info.parquet"}

(* ------------------------- build_enriched_data ------------------------ *)
\* lines 58-60 and 78: the derived columns
with_ids(row) ==
    [track_uri |-> row.track_uri, artist_uri |-> row.artist_uri,
     track_name |-> row.track_name, artist_name |-> row.artist_name,
     track_id |-> extract_id(row.track_uri), artist_id |-> extract_id(row.artist_uri),
     playlist_count |-> 0]

joined(row, g, p, f) ==
    [track_uri |-> row.track_uri, artist_uri |-> row.artist_uri,
     track_name |-> row.track_name, artist_name |-> row.artist_name,
     track_id |-> row.track_id, artist_id |-> row.artist_id,
     playlist_count |-> row.playlist_count,
     genres |-> g, artist_popularity |-> p, artist_followers |-> f]

\* the rows of a left merge for one left row: one per matching right row, in the
\* right table's order, or one row of missing values when nothing matches
RECURSIVE matches(_, _)
matches(row, adf) ==
    IF adf = <<>> THEN <<>>
    ELSE (IF Head(adf).artist_id = row.artist_id
          THEN <<joined(row, Head(adf).genres, Head(adf).artist_popularity,
                        Head(adf).artist_followers)>>
          ELSE <<>>) \o matches(row, Tail(adf))

merge_row(row, adf) ==
    IF matches(row, adf) = <<>> THEN <<joined(row, NaN, NaN, NaN)>> ELSE matches(row, adf)

\* track_df.merge(artist_df_slim, on='artist_id', how='left')
RECURSIVE merge_left(_, _)
merge_left(tdf, adf) ==
    IF tdf = <<>> THEN <<>> ELSE merge_row(Head(tdf), adf) \o merge_left(Tail(tdf), adf)

normalize_genres(x) == IF x = NaN THEN <<>> ELSE x[1]

fillna(x, d) == IF x = NaN THEN d ELSE x[1]

normalized(row) ==
    [row EXCEPT !.genres = normalize_genres(@),
                !.artist_popularity = fillna(@, 50),
                !.artist_followers = fillna(@, 0)]

\* fault seeding: the vocabulary filter left out
isin_everything(df, vocab_set) == df

\* df[df['track_uri'].isin(vocab_set)]
isin(df, vocab_set) == SelectSeq(df, LAMBDA r : r.track_uri \in vocab_set)

\* fault seeding: keep='last'
drop_duplicates_keep_last(df) ==
    LET keep(k) == \A j \in (k+1)..Len(df) : df[j].track_uri # df[k].track_uri
        RECURSIVE go(_)
        go(k) == IF k > Len(df) THEN <<>>
                 ELSE (IF keep(k) THEN <<df[k]>> ELSE <<>>) \o go(k + 1)
    IN go(1)

\* df.drop_duplicates(subset='track_uri', keep='first')
drop_duplicates(df) ==
    LET keep(k) == \A j \in 1..(k-1) : df[j].track_uri # df[k].track_uri
        RECURSIVE go(_)
        go(k) == IF k > Len(df) THEN <<>>
                 ELSE (IF keep(k) THEN <<df[k]>> ELSE <<>>) \o go(k + 1)
    IN go(1)

build_enriched_data(w, tdf, adf) ==
    LET with == [k \in 1..Len(tdf) |-> with_ids(tdf[k])]
        merged == merge_left(with, adf)
        norm == [k \in 1..Len(merged) |-> normalized(merged[k])]
    IN drop_duplicates(isin(norm, DOMAIN w))

(* -------------------------- export_tracks_json ------------------------ *)
GenresLimit == 5

\* fault seeding: the derived track_id exported as the id
track_record_canonical(row) ==
    [id |-> row.track_id, name |-> row.track_name, artist |-> row.artist_name,
     album |-> <<>>, genres |-> Take(row.genres, GenresLimit),
     popularity |-> row.artist_popularity, playlistCount |-> row.playlist_count]

\* the public record of one row; the tables carry no album_name column, so
\* row.get('album_name', '') is ''
track_record(row) ==
    [id |-> row.track_uri, name |-> row.track_name, artist |-> row.artist_name,
     album |-> <<>>, genres |-> Take(row.genres, GenresLimit),
     popularity |-> row.artist_popularity, playlistCount |-> row.playlist_count]

export_tracks(df) == [k \in 1..Len(df) |-> track_record(df[k])]

(* ----------------------- export_embeddings_binary --------------------- *)
\* fault seeding: the rows taken in another order than the track list's
embedding_matrix_reversed(w, df) == [k \in 1..Len(df) |-> w[df[Len(df) + 1 - k].track_uri]]

\* np.array([wv[uri] for uri in track_uris])
embedding_matrix(w, df) == [k \in 1..Len(df) |-> w[df[k].track_uri]]

\* ndarray.tofile: the values in row-major order, nothing else
tofile(m) == Concat(m)

(* ------------------------------ compute_tsne -------------------------- *)
Axes == 1..3

\* a float of the output: num/den, and 0/0 for NaN
NaNFloat == [num |-> 0, den |-> 0]

IsFinite(x) == x.den # 0

SeqMin(s) == CHOOSE m \in Range(s) : \A x \in Range(s) : m <= x
SeqMax(s) == CHOOSE m \in Range(s) : \A x \in Range(s) : m >= x

Column(m, a) == [k \in 1..Len(m) |-> m[k][a]]

\* 2 * (x - min) / (max - min) - 1 in IEEE arithmetic: x - min is 0 whenever
\* max = min, and 0/0 is NaN
rescale(x, mn, mx) ==
    IF mx = mn THEN NaNFloat ELSE [num |-> 2 * (x - mn) - (mx - mn), den |-> mx - mn]

normalize_coords(c) ==
    [k \in 1..Len(c) |->
        [a \in Axes |-> rescale(c[k][a], SeqMin(Column(c, a)), SeqMax(Column(c, a)))]]

(* ---------------------------- build_search_index ---------------------- *)
UpperCase == <<"A", "B", "C", "D", "E", "F", "G", "H", "I", "J", "K", "L", "M",
               "N", "O", "P", "Q", "R", "S", "T", "U", "V", "W", "X", "Y", "Z">>
LowerCase == <<"a", "b", "c", "d", "e", "f", "g", "h", "i", "j", "k", "l", "m",
               "n", "o", "p", "q", "r", "s", "t", "u", "v", "w", "x", "y", "z">>

\* str.lower, one character at a time
LowerChar(c) ==
    IF \E k \in 1..Len(UpperCase) : UpperCase[k] = c
    THEN LowerCase[CHOOSE k \in 1..Len(UpperCase) : UpperCase[k] = c]
    ELSE c

lower(t) == [k \in 1..Len(t) |-> LowerChar(t[k])]

\* the character class [a-z0-9]
AlnumClass == Range(LowerCase) \cup Range(Digits)

\* re.findall(r'[a-z0-9]+', s): scan from the left, each match greedy
RECURSIVE findall_from(_, _)
findall_from(s, pos) ==
    IF pos > Len(s) THEN <<>>
    ELSE IF s[pos] \notin AlnumClass THEN findall_from(s, pos + 1)
    ELSE LET stop == IF \E e \in pos..Len(s) : s[e] \notin AlnumClass
                     THEN CHOOSE e \in pos..Len(s) :
                            /\ s[e] \notin AlnumClass
                            /\ \A j \in pos..(e - 1) : s[j] \in AlnumClass
                     ELSE Len(s) + 1
         IN <<SubSeq(s, pos, stop - 1)>> \o findall_from(s, stop)

findall(s) == findall_from(s, 1)

MinTokenLen == 2

\* fault seeding: the length filter left out
tokenize_all_lengths(t) ==
    IF t = NoneText \/ t = <<>> THEN <<>> ELSE findall(lower(t))

tokenize(t) ==
    IF t = NoneText \/ t = <<>> THEN <<>>
    ELSE SelectSeq(findall(lower(t)), LAMBDA tok : Len(tok) >= MinTokenLen)

\* fault seeding: the posting appended without the membership test
post_always(idx, token, i) ==
    LET touched == IF token \in DOMAIN idx THEN idx ELSE idx @@ (token :> <<>>)
    IN [touched EXCEPT ![token] = Append(@, i)]

\* if i not in index[token]: index[token].append(i), index a defaultdict(list)
post(idx, token, i) ==
    LET touched == IF token \in DOMAIN idx THEN idx ELSE idx @@ (token :> <<>>)
    IN IF i \in Range(touched[token]) THEN touched
       ELSE [touched EXCEPT ![token] = Append(@, i)]

RECURSIVE post_all(_, _, _)
post_all(idx, toks, i) ==
    IF toks = <<>> THEN idx ELSE post_all(post(idx, Head(toks), i), Tail(toks), i)

\* fault seeding: the artist name not indexed
index_track_name_only(idx, track, i) == post_all(idx, tokenize(track.name), i)

\* the body of the loop for the track at position i (0-based, as enumerate gives)
index_track(idx, track, i) ==
    post_all(post_all(idx, tokenize(track.name), i), tokenize(track.artist), i)

RECURSIVE index_from(_, _, _)
index_from(idx, trs, k) ==
    IF k > Len(trs) THEN idx ELSE index_from(index_track(idx, trs[k], k - 1), trs, k + 1)

EmptyIndex == [t \in {} |-> <<>>]

build_index(trs) == index_from(EmptyIndex, trs, 1)

(* ------------------------------ export_genres ------------------------- *)
TopGenres == 50

\* a Counter: its items in insertion order
count_one(counter, g) ==
    IF \E k \in 1..Len(counter) : counter[k].name = g
    THEN [k \in 1..Len(counter) |->
            IF counter[k].name = g THEN [counter[k] EXCEPT !.count = @ + 1]
            ELSE counter[k]]
    ELSE Append(counter, [name |-> g, count |-> 1])

\* genre_counts[genre] += 1 for gs[p], gs[p + 1], ...; the test on the counter's
\* length is always true and makes TLC evaluate the counter at every step
RECURSIVE count_from(_, _, _)
count_from(counter, gs, p) ==
    IF Len(counter) >= 0 /\ p > Len(gs) THEN counter
    ELSE count_from(count_one(counter, gs[p]), gs, p + 1)

count_all(counter, gs) == count_from(counter, gs, 1)

\* fault seeding: the counts taken over the public records' truncated lists
genre_column_truncated(df) == [k \in 1..Len(df) |-> Take(df[k].genres, GenresLimit)]

\* the genre lists Counter iterates over: the rows' full lists
genre_column(df) == [k \in 1..Len(df) |-> df[k].genres]

genre_counts(df) == count_all(<<>>, Concat(genre_column(df)))

RemoveAt(s, k) == SubSeq(s, 1, k - 1) \o SubSeq(s, k + 1, Len(s))

\* sorted(items, key=count, reverse=True): stable, so among equal counts the
\* earlier item stays first
RECURSIVE sorted_by_count(_)
sorted_by_count(items) ==
    IF items = <<>> THEN <<>>
    ELSE LET k == CHOOSE k \in 1..Len(items) :
                    /\ \A j \in 1..Len(items) : items[j].count <= items[k].count
                    /\ \A j \in 1..(k - 1) : items[j].count < items[k].count
         IN <<items[k]>> \o sorted_by_count(RemoveAt(items, k))

\* Counter.most_common(n)
most_common(counter, n) == Take(sorted_by_count(counter), n)

export_genres(df) == most_common(genre_counts(df), TopGenres)

(* --------------------- inputs of the other specifications ------------- *)
\* SpecGenres: every track has its own artist, whose genre list is one of these
ManyGenres == [k \in 1..(TopGenres + 1) |-> ToString(k)]
ManyGenresReversed == [k \in 1..(TopGenres + 1) |-> ToString(TopGenres + 2 - k)]
GenreLists == { NaN, <<ManyGenres>>, <<ManyGenresReversed>>,
                << <<"7", "7", "52">> >>, << <<"52", "3">> >> }

NumberedTracks(n) ==
    [k \in 1..n |-> TrackRow(TrackUri(k), <<"s", ":", "r", ":", Digits[k + 1]>>,
                             SongA, ArtX)]

NumberedVocabulary(n) == [u \in {TrackUri(k) : k \in 1..n} |-> VecOf(u)]

GenreInputs ==
    { [wv |-> NumberedVocabulary(Len(g)), track_df |-> NumberedTracks(Len(g)),
       artist_df |-> [k \in 1..Len(g) |-> ArtistRow(<<Digits[k + 1]>>, g[k], NaN, NaN)]] :
        g \in SeqsUpTo(GenreLists, MaxGenreTracks) }

\* SpecTsne: the tracks matter only by their number
TsneInputs ==
    { [wv |-> NumberedVocabulary(n), track_df |-> NumberedTracks(n), artist_df |-> <<>>] :
        n \in 1..MaxTsneTracks }

\* what TSNE.fit_transform may return for n rows, an n x 3 matrix: any one with
\* coordinates up to MaxCoord, or (where the projection is not the subject) one
\* of two
AnyProjection(n) == [1..n -> [Axes -> 0..MaxCoord]]

SomeProjection(n) == { [k \in 1..n |-> [a \in Axes |-> IF a = 2 THEN 0 ELSE a * k]],
                       [k \in 1..n |-> [a \in Axes |-> (k * k) % (a + 1)]] }

Projection(any, n) == IF any THEN AnyProjection(n) ELSE SomeProjection(n)

\* SpecTok: the texts tokenize is applied to
TokChars == {"A", "b", "2", "-", "_"}
ExampleText == <<"T", "r", "a", "c", "k", "-", "N", "a", "m", "e", " ", "2", " ",
                 "F", "t", ".", " ", "D", "J">>
Texts == SeqsUpTo(TokChars, MaxLen) \cup {NoneText, ExampleText}

(* ------------------------------- state -------------------------------- *)
Nothing == <<>>

Blank(p, t) ==
    /\ pc = p
    /\ error = "none"
    /\ wv = Nothing /\ track_df = Nothing /\ artist_df = Nothing
    /\ enriched_df = Nothing /\ tracks = Nothing /\ embeddings = Nothing
    /\ coords_3d = Nothing /\ coords = Nothing /\ index = EmptyIndex /\ top_genres = Nothing
    /\ files = Nothing
    /\ text = t /\ tokens = Nothing

\* main() before load_data: OUTPUT_DIR exists and nothing is written
Init == Blank("start", Nothing)

written(name, content) == files @@ (name :> content)

(* ------------------------------- main() ------------------------------- *)
\* load_data: the three reads succeed
LoadData(Inputs) ==
    /\ pc = "start"
    /\ \E i \in Inputs :
         /\ wv' = i.wv
         /\ track_df' = i.track_df
         /\ artist_df' = i.artist_df
    /\ pc' = "loaded"
    /\ UNCHANGED <<error, enriched_df, tracks, embeddings, coords_3d, coords, index,
                   top_genres, files, text, tokens>>

\* load_data: a required source is missing or unreadable, the read raises
LoadDataFails ==
    /\ pc = "start"
    /\ \E src \in RequiredSources : error' = src
    /\ pc' = "aborted"
    /\ UNCHANGED <<wv, track_df, artist_df, enriched_df, tracks, embeddings, coords_3d, coords,
                   index, top_genres, files, text, tokens>>

BuildEnrichedData ==
    /\ pc = "loaded"
    /\ enriched_df' = build_enriched_data(wv, track_df, artist_df)
    /\ pc' = "enriched"
    /\ UNCHANGED <<error, wv, track_df, artist_df, tracks, embeddings, coords_3d, coords, index,
                   top_genres, files, text, tokens>>

ExportTracksJson ==
    /\ pc = "enriched"
    /\ tracks' = export_tracks(enriched_df)
    /\ files' = written("tracks.json", tracks')
    /\ pc' = "tracks"
    /\ UNCHANGED <<error, wv, track_df, artist_df, enriched_df, embeddings, coords_3d, coords,
                   index, top_genres, text, tokens>>

\* fault seeding: an empty matrix handled as a 0 x 0 one, the run goes on
ExportEmbeddingsBinaryNoRaise ==
    /\ pc = "tracks"
    /\ embeddings' = embedding_matrix(wv, enriched_df)
    /\ files' = written("embeddings.bin", tofile(embeddings'))
                   @@ ("embeddings_meta.json" :>
                         [numTracks |-> Len(embeddings'),
                          dimensions |-> IF Len(embeddings') = 0 THEN 0
                                         ELSE Len(embeddings'[1])])
    /\ error' = error
    /\ pc' = "embeddings"
    /\ UNCHANGED <<wv, track_df, artist_df, enriched_df, tracks, coords_3d, coords, index,
                   top_genres, text, tokens>>

\* with no rows np.array([]) has shape (0,): the blob is written empty and
\* embeddings.shape[1] on line 149 raises IndexError before the sidecar
ExportEmbeddingsBinary ==
    /\ pc = "tracks"
    /\ embeddings' = embedding_matrix(wv, enriched_df)
    /\ IF Len(enriched_df) = 0
       THEN /\ files' = written("embeddings.bin", tofile(embeddings'))
            /\ error' = "IndexError"
            /\ pc' = "aborted"
       ELSE /\ files' = written("embeddings.bin", tofile(embeddings'))
                          @@ ("embeddings_meta.json" :>
                                [numTracks |-> Len(embeddings'),
                                 dimensions |-> Len(embeddings'[1])])
            /\ error' = error
            /\ pc' = "embeddings"
    /\ UNCHANGED <<wv, track_df, artist_df, enriched_df, tracks, coords_3d, coords, index,
                   top_genres, text, tokens>>

\* TSNE is an external function: any matrix of Projection(any, n) may come back
ComputeTsne(any) ==
    /\ pc = "embeddings"
    /\ \E c \in Projection(any, Len(embeddings)) :
         /\ coords_3d' = c
         /\ coords' = normalize_coords(c)
         /\ files' = written("tsne_coords.json", coords')
    /\ pc' = "tsne"
    /\ UNCHANGED <<error, wv, track_df, artist_df, enriched_df, tracks, embeddings,
                   index, top_genres, text, tokens>>

BuildSearchIndex ==
    /\ pc = "tsne"
    /\ index' = build_index(tracks)
    /\ files' = written("search_index.json", index')
    /\ pc' = "index"
    /\ UNCHANGED <<error, wv, track_df, artist_df, enriched_df, tracks, embeddings,
                   coords_3d, coords, top_genres, text, tokens>>

ExportGenres ==
    /\ pc = "index"
    /\ top_genres' = export_genres(enriched_df)
    /\ files' = written("genres.json", top_genres')
    /\ pc' = "genres"
    /\ UNCHANGED <<error, wv, track_df, artist_df, enriched_df, tracks, embeddings,
                   coords_3d, coords, index, text, tokens>>

\* the closing prints of main; the process exits 0
Finish ==
    /\ pc = "genres"
    /\ pc' = "done"
    /\ UNCHANGED <<error, wv, track_df, artist_df, enriched_df, tracks, embeddings,
                   coords_3d, coords, index, top_genres, files, text, tokens>>

\* the exit status of the process: an uncaught exception gives 1
ExitCode == IF pc = "done" THEN 0 ELSE IF pc = "aborted" THEN 1 ELSE -1

Stages ==
    \/ BuildEnrichedData
    \/ ExportTracksJson
    \/ ExportEmbeddingsBinary
    \/ BuildSearchIndex
    \/ ExportGenres
    \/ Finish

Next ==
    \/ LoadData(MainInputs)
    \/ LoadDataFails
    \/ ComputeTsne(FALSE)
    \/ Stages

Spec == Init /\ [][Next]_vars

NextGenres ==
    \/ LoadData(GenreInputs)
    \/ LoadDataFails
    \/ ComputeTsne(FALSE)
    \/ Stages

SpecGenres == Init /\ [][NextGenres]_vars

NextTsne ==
    \/ LoadData(TsneInputs)
    \/ LoadDataFails
    \/ ComputeTsne(TRUE)
    \/ Stages

SpecTsne == Init /\ [][NextTsne]_vars

(* ------------------------- tokenize on its own ------------------------ *)
InitTok == \E t \in Texts : Blank("tokenize", t)

Tokenize ==
    /\ pc = "tokenize"
    /\ tokens' = tokenize(text)
    /\ pc' = "tokenized"
    /\ UNCHANGED <<error, wv, track_df, artist_df, enriched_df, tracks, embeddings,
                   coords_3d, coords, index, top_genres, files, text>>

SpecTok == InitTok /\ [][Tokenize]_vars

(* ------------------------------ properties ---------------------------- *)
Completed == pc = "done"
Indexed == pc \in {"index", "genres", "done"}
Projected == pc \in {"tsne", "index", "genres", "done"}
Summarized == pc \in {"genres", "done"}

TrackTokens(t) == Range(tokenize(t.name)) \cup Range(tokenize(t.artist))

\* C1: after a completed run with N tracks in the exported track list, the
\* embedding matrix (and the blob written from it, D values per row) has exactly
\* N rows, row i is the vocabulary's vector of the identifier of record i, and
\* every position the search index posts for a token is a record carrying it.
PositionalAlignment ==
    Completed =>
        LET list == files["tracks.json"]
            blob == files["embeddings.bin"]
            meta == files["embeddings_meta.json"]
            N == Len(list)
            D == meta.dimensions
        IN /\ Len(embeddings) = N
           /\ meta.numTracks = N
           /\ Len(blob) = N * D
           /\ \A i \in 1..N :
                /\ embeddings[i] = wv[list[i].id]
                /\ \A j \in 1..D : blob[(i - 1) * D + j] = wv[list[i].id][j]
           /\ \A tok \in DOMAIN index : \A p \in Range(index[tok]) :
                p \in 0..(N - 1) /\ tok \in TrackTokens(list[p + 1])

\* a completed run whose track list is not in the order of the identifiers'
\* vectors: the second record's vector differs from the first's
PositionalAlignmentWitness ==
    /\ Completed
    /\ Len(tracks) >= 2
    /\ embeddings[1] # embeddings[2]
    /\ \E tok \in DOMAIN index : Len(index[tok]) >= 2

\* C2: every record of the exported track list (and every row of the
\* consolidated set) has an identifier that is a key of the vocabulary, so a
\* source row whose identifier is not in the vocabulary is in no output.
VocabularyClosure ==
    pc \notin {"start", "loaded"} =>
        /\ \A k \in 1..Len(enriched_df) : enriched_df[k].track_uri \in DOMAIN wv
        /\ \A k \in 1..Len(tracks) : tracks[k].id \in DOMAIN wv
        /\ "tracks.json" \in DOMAIN files =>
             \A k \in 1..Len(files["tracks.json"]) :
                files["tracks.json"][k].id \in DOMAIN wv

\* a completed run whose track table has a row outside the vocabulary
VocabularyClosureWitness ==
    /\ Completed
    /\ \E k \in 1..Len(track_df) : track_df[k].track_uri \notin DOMAIN wv
    /\ Len(tracks) >= 1

\* the first row of the track table with this URI
FirstRow(uri) ==
    CHOOSE k \in 1..Len(track_df) :
        /\ track_df[k].track_uri = uri
        /\ \A j \in 1..(k - 1) : track_df[j].track_uri # uri

\* the genres the first artist row matching the track row carries (none: empty)
FirstArtistGenres(row) ==
    LET hits == {a \in 1..Len(artist_df) :
                    artist_df[a].artist_id = extract_id(row.artist_uri)}
    IN IF hits = {} THEN <<>>
       ELSE normalize_genres(artist_df[CHOOSE a \in hits : \A b \in hits : a <= b].genres)

\* C3: no two records of the track list share an identifier; the record of an
\* identifier is that of its first source row (joined to the first matching
\* artist row), and the records are in the order of those first rows.
IdentifierUniqueness ==
    pc \notin {"start", "loaded", "enriched"} =>
        /\ \A i, j \in 1..Len(tracks) : i # j => tracks[i].id # tracks[j].id
        /\ {tracks[k].id : k \in 1..Len(tracks)}
             = {track_df[k].track_uri : k \in 1..Len(track_df)} \cap DOMAIN wv
        /\ \A k \in 1..Len(tracks) :
             LET row == track_df[FirstRow(tracks[k].id)]
             IN /\ tracks[k].name = row.track_name
                /\ tracks[k].artist = row.artist_name
                /\ tracks[k].genres = Take(FirstArtistGenres(row), GenresLimit)
        /\ \A i, j \in 1..Len(tracks) :
             i < j => FirstRow(tracks[i].id) < FirstRow(tracks[j].id)

\* a track list with two records, one of them from an identifier that occurs on
\* two source rows of different names and whose artist has two artist rows
IdentifierUniquenessWitness ==
    /\ Completed
    /\ Len(tracks) >= 2
    /\ \E i, j \in 1..Len(track_df) :
         /\ i < j
         /\ track_df[i].track_uri = track_df[j].track_uri
         /\ track_df[i].track_name # track_df[j].track_name
         /\ track_df[i].track_uri \in DOMAIN wv
         /\ Cardinality({a \in 1..Len(artist_df) :
                artist_df[a].artist_id = extract_id(track_df[i].artist_uri)}) = 2
         /\ artist_df[1].genres # artist_df[2].genres

\* C4 as stated: the id of every public record is the canonical identifier,
\* the part of the source URI after its last ':'.
IdIsCanonical ==
    \A k \in 1..Len(tracks) : tracks[k].id = extract_id(enriched_df[k].track_uri)

\* C4, amended: the id of every public record is the source track URI itself,
\* unchanged; it is the canonical identifier exactly when the URI has no ':'.
IdIsSourceUri ==
    \A k \in 1..Len(tracks) :
        /\ tracks[k].id = enriched_df[k].track_uri
        /\ \E j \in 1..Len(track_df) : track_df[j].track_uri = tracks[k].id
        /\ (tracks[k].id = extract_id(tracks[k].id)) <=> (":" \notin Range(tracks[k].id))

\* a track list with a record of a URI with separators and one of a URI without
IdIsSourceUriWitness ==
    /\ Completed
    /\ \E k \in 1..Len(tracks) : ":" \in Range(tracks[k].id)
    /\ \E k \in 1..Len(tracks) : ":" \notin Range(tracks[k].id)

\* C5: for every position i and every token of record i's name or artist, the
\* token's postings list contains i, exactly once.
IndexComplete ==
    Indexed =>
        \A i \in 1..Len(tracks) : \A tok \in TrackTokens(tracks[i]) :
            /\ tok \in DOMAIN index
            /\ Cardinality({p \in 1..Len(index[tok]) : index[tok][p] = i - 1}) = 1

\* an indexed record whose name repeats a token that is also in its artist
IndexCompleteWitness ==
    /\ Indexed
    /\ \E i \in 1..Len(tracks) :
         /\ tracks[i].name # NoneText /\ tracks[i].artist # NoneText
         /\ \E a, b \in 1..Len(tokenize(tracks[i].name)) :
              /\ a # b
              /\ tokenize(tracks[i].name)[a] = tokenize(tracks[i].name)[b]
              /\ tokenize(tracks[i].name)[a] \in Range(tokenize(tracks[i].artist))

\* the maximal runs of [a-z0-9] of s that are at least n long, as <<first, last>>
MaximalRuns(s, n) ==
    {r \in (1..Len(s)) \X (1..Len(s)) :
        /\ r[1] <= r[2]
        /\ r[2] - r[1] + 1 >= n
        /\ \A k \in r[1]..r[2] : s[k] \in AlnumClass
        /\ (r[1] = 1 \/ s[r[1] - 1] \notin AlnumClass)
        /\ (r[2] = Len(s) \/ s[r[2] + 1] \notin AlnumClass)}

\* C6: tokenize returns, from left to right, exactly the maximal runs of ASCII
\* letters and digits of the lowercased text that are at least 2 long; a missing
\* or empty text gives no tokens.
TokenizerRuns ==
    pc = "tokenized" =>
        IF text = NoneText \/ text = <<>> THEN tokens = <<>>
        ELSE LET runs == MaximalRuns(lower(text), 2)
             IN /\ Len(tokens) = Cardinality(runs)
                /\ \A r \in runs :
                     tokens[1 + Cardinality({q \in runs : q[1] < r[1]})]
                        = SubSeq(lower(text), r[1], r[2])

\* the example of the specification: "Track-Name 2 Ft. DJ"
TokenizerRunsWitness ==
    /\ pc = "tokenized"
    /\ text = ExampleText
    /\ tokens = << <<"t", "r", "a", "c", "k">>, <<"n", "a", "m", "e">>,
                   <<"f", "t">>, <<"d", "j">> >>

\* the vocabulary was loaded and is empty
EmptyVocabulary == pc # "start" /\ error \notin RequiredSources /\ DOMAIN wv = {}

FatalCondition == error \in RequiredSources \/ EmptyVocabulary

\* C7 as stated: under a fatal condition the run never completes, and when it
\* has aborted (exit status not 0) no artifact has been written.
FatalWritesNothing ==
    FatalCondition =>
        /\ ~Completed
        /\ pc = "aborted" => ExitCode # 0 /\ DOMAIN files = {}

\* C7, amended: a missing or unreadable source aborts the run in load_data with
\* nothing written; an empty vocabulary never completes either, but aborts (exit
\* status not 0) only in export_embeddings_binary, when the track list and the
\* embedding blob, both empty, are written and no other artifact is.
FatalAborts ==
    /\ error \in RequiredSources =>
         pc = "aborted" /\ ExitCode # 0 /\ DOMAIN files = {}
    /\ EmptyVocabulary =>
         /\ ~Completed
         /\ pc \in {"loaded", "enriched", "tracks", "aborted"}
         /\ pc = "aborted" =>
              /\ ExitCode # 0
              /\ error = "IndexError"
              /\ DOMAIN files = {"tracks.json", "embeddings.bin"}
              /\ files["tracks.json"] = <<>>
              /\ files["embeddings.bin"] = <<>>

\* a run aborted on an empty vocabulary whose track table had rows
FatalAbortsWitness ==
    /\ pc = "aborted"
    /\ EmptyVocabulary
    /\ Len(track_df) >= 1

\* the value -1 or 1 of an output float
IsValue(x, v) == IsFinite(x) /\ x.num = v * x.den

\* x <= y for finite output floats (denominators are positive)
LessEq(x, y) == x.num * y.den <= y.num * x.den

\* C8: on every axis whose raw values are not all equal the rescaled minimum is
\* -1 and the maximum 1; on an axis whose raw values are all equal every
\* rescaled value is finite, and so is every value of the coordinates artifact.
RescaledRange ==
    Projected =>
        LET out == files["tsne_coords.json"]
            N == Len(coords_3d)
        IN /\ Len(out) = N
           /\ \A a \in Axes :
                IF \E i, j \in 1..N : coords_3d[i][a] # coords_3d[j][a]
                THEN /\ \E i \in 1..N : IsValue(out[i][a], -1)
                     /\ \E i \in 1..N : IsValue(out[i][a], 1)
                     /\ \A i \in 1..N : /\ IsFinite(out[i][a])
                                        /\ LessEq([num |-> -1, den |-> 1], out[i][a])
                                        /\ LessEq(out[i][a], [num |-> 1, den |-> 1])
                ELSE \A i \in 1..N : IsFinite(out[i][a])

\* every (track, genre) membership of the consolidated set, in encounter order
Memberships == Concat([k \in 1..Len(enriched_df) |-> enriched_df[k].genres])

\* C9: the summary has min(50, distinct genres) entries of distinct genres,
\* each with its number of memberships over the full genre lists, in
\* non-increasing order of count and, among equal counts, of first encounter;
\* no genre left out has more than one kept; the counts sum to no more than the
\* memberships.
GenreSummary ==
    Summarized =>
        LET out == files["genres.json"]
            all == Memberships
            kept == {out[k].name : k \in 1..Len(out)}
            Occurrences == [g \in Range(all) |->
                              Cardinality({p \in 1..Len(all) : all[p] = g})]
            FirstSeen == [g \in Range(all) |->
                            CHOOSE p \in 1..Len(all) :
                                all[p] = g /\ \A q \in 1..(p - 1) : all[q] # g]
        IN /\ out = top_genres
           /\ Len(out) = Min2(TopGenres, Cardinality(Range(all)))
           /\ Cardinality(kept) = Len(out)
           /\ kept \subseteq Range(all)
           /\ \A k \in 1..Len(out) : out[k].count = Occurrences[out[k].name]
           /\ \A i, j \in 1..Len(out) :
                i < j => \/ out[i].count > out[j].count
                         \/ /\ out[i].count = out[j].count
                            /\ FirstSeen[out[i].name] < FirstSeen[out[j].name]
           /\ \A g \in Range(all) \ kept :
                \A k \in 1..Len(out) : Occurrences[g] <= out[k].count
           /\ SumSeq([k \in 1..Len(out) |-> out[k].count]) <= Len(all)

\* a summary cut to 50 of more genres, with equal counts among the kept and a
\* track whose genre list is longer than the public record's
GenreSummaryWitness ==
    /\ Completed
    /\ Cardinality(Range(Memberships)) > TopGenres
    /\ Len(top_genres) = TopGenres
    /\ top_genres[1].count > top_genres[TopGenres].count
    /\ top_genres[2].count = top_genres[3].count
    /\ \E k \in 1..Len(enriched_df) : Len(enriched_df[k].genres) > GenresLimit

\* C10: every key of the index has a non-empty postings list, every posting is
\* a position of a record that has the key among the tokens of its name or
\* artist, and every postings list is strictly increasing.
IndexSound ==
    Indexed =>
        /\ files["search_index.json"] = index
        /\ \A tok \in DOMAIN index :
             /\ Len(index[tok]) >= 1
             /\ \A p \in 1..Len(index[tok]) :
                  /\ index[tok][p] \in 0..(Len(tracks) - 1)
                  /\ tok \in TrackTokens(tracks[index[tok][p] + 1])
             /\ \A p \in 1..(Len(index[tok]) - 1) : index[tok][p] < index[tok][p + 1]

\* an index with a key posted for two records, one of which carries it twice
IndexSoundWitness ==
    /\ Indexed
    /\ \E tok \in DOMAIN index :
         /\ Len(index[tok]) >= 2
         /\ \E i \in 1..Len(tracks) :
              Cardinality({a \in 1..Len(tokenize(tracks[i].name)) :
                             tokenize(tracks[i].name)[a] = tok}) >= 2

====
